---- MODULE Spec2Model ----
(***************************************************************************)
(* Model of rust-axum-backend: the in-memory ticket store (src/model.rs)   *)
(* and the request pipeline assembled in main (src/main.rs): cookie /      *)
(* context resolution, the authorization gate on the /api routes, the      *)
(* handlers, the response mapper and the fallback service.                 *)
(*                                                                         *)
(* Rust indexes the store from 0; a TLA+ sequence from 1: the slot of      *)
(* ticket id i is tickets_store[i + 1].                                    *)
(***************************************************************************)
EXTENDS Integers, Sequences, FiniteSets, TLC

\* ------------------------------------------------------------------ bounds
NumWorkers == 2      \* concurrent callers of the store
MaxInFlight == 1     \* requests the pipeline serves at once
MaxRequests == 2     \* requests accepted in one run of the pipeline
MaxCalls == 4        \* ModelController calls in one run of the store
MaxId == 1           \* DELETE /api/tickets/{id} draws id from 0..MaxId
MaxSession == 3      \* requests the cookie-keeping client sends in one session
MaxTasks == 2        \* ModelController calls in one run under fair scheduling

Workers == 1..NumWorkers
Conns == 1..MaxInFlight
Users == {1, 2}                 \* the user login mints a token for, and another
Titles == {"My first ticket"}

\* ------------------------------------------------------------- the values
None == <<>>                     \* Option::None
Some(x) == <<x>>                 \* Option::Some(x)
NoCookie == None                 \* the request carries no auth-token cookie

\* The auth-token cookie value "user-<id>.<exp>.<sign>", split at its separators.
Token(u) == <<"user", u, "exp", "sign">>
MalformedToken == <<"garbage">>
Tokens == {NoCookie, MalformedToken} \cup {Token(u) : u \in Users}

\* The routes of routes_all, and a path no route matches.
HELLO == "GET /hello"
LOGIN == "POST /api/login"
LIST == "GET /api/tickets"
CREATE == "POST /api/tickets"
DELETE == "DELETE /api/tickets/{id}"
STATIC == "GET /src/main.rs"

routes_hello == {HELLO}
routes_login == {LOGIN}
routes_ticket == {LIST, CREATE, DELETE}

\* main: routes_apis = routes_ticket.route_layer(mw_require_auth): the routes
\* whose handler runs behind the authorization gate.
\* (Faulty variant: the gate applied by .layer to every route.)
routes_apis_all == routes_hello \cup routes_login \cup routes_ticket
routes_apis == routes_ticket

\* main: the routes merged into routes_all before the .layer() calls; each is
\* wrapped by main_response_mapper, mw_ctx_resolver and the cookie layer.
layered_routes == routes_hello \cup routes_login \cup routes_apis

\* main: .fallback_service(ServeDir) is added after the .layer() calls, and a
\* layer wraps only the routes and fallback present when it is applied.
fallback_paths == {STATIC}

Paths == layered_routes \cup fallback_paths

\* ------------------------------------------------------------ the errors
ErrNoAuthTokenCookie == <<"AuthFailNoAuthTokenCookie">>
ErrTokenWrongFormat == <<"AuthFailTokenWrongFormat">>
ErrCtxNotInRequestExt == <<"AuthFailCtxNotInRequestExt">>
ErrLoginFail == <<"LoginFail">>
ErrTicketDeleteFailIdNotFound(id) == <<"TicketDeleteFailIdNotFound", id>>
ErrOther == <<"ConfigMissing">>

\* Result<T>
Ok(v) == <<"Ok", v>>
Err(e) == <<"Err", e>>
IsOk(r) == r[1] = "Ok"
IsErr(r) == r[1] = "Err"

\* ------------------------------------------------------ the ticket store
\* Ticket { id, cid: ctx.user_id(), title: ticket_fc.title }
\* (Faulty variant: the creator's user id is not recorded.)
TicketNoOwner(id, cid, title) == [id |-> id, cid |-> 0, title |-> title]
Ticket(id, cid, title) == [id |-> id, cid |-> cid, title |-> title]

\* create_ticket: let id = store.len() as u64
\* (Faulty variant: the number of live tickets.)
NewIdLive(store) == Cardinality({i \in 1..Len(store) : store[i] # None})
NewId(store) == Len(store)

\* create_ticket: store.push(Some(ticket.clone()))
\* (Faulty variant PushFront: Vec::insert(0, ..), which shifts every earlier
\* slot. Faulty variant PushReuse: the ticket goes into the first empty slot.)
PushFront(store, ticket) == <<Some(ticket)>> \o store
PushReuse(store, ticket) ==
    LET free == {i \in 1..Len(store) : store[i] = None}
    IN  IF free = {}
        THEN Append(store, Some(ticket))
        ELSE [store EXCEPT ![CHOOSE i \in free : \A j \in free : i <= j] = Some(ticket)]
Push(store, ticket) == Append(store, Some(ticket))

\* list_tickets: store.iter().filter_map(|t| t.clone()).collect()
\* (Faulty variant: the newest ticket first, as from .iter().rev().)
Unwrap(opt) == opt[1]
FilterMapRev(store) ==
    LET live == SelectSeq(store, LAMBDA t : t # None)
    IN  [i \in 1..Len(live) |-> Unwrap(live[Len(live) + 1 - i])]
FilterMap(store) ==
    LET live == SelectSeq(store, LAMBDA t : t # None)
    IN  [i \in 1..Len(live) |-> Unwrap(live[i])]

\* delete_ticket: store.get_mut(id as usize).and_then(|t| t.take())
\* The pair <<removed ticket or None, store afterwards>>.
\* (Faulty variant RemoveShift: Vec::remove, which shifts the later slots.
\* Faulty variant TakeResize: an id past the end grows the store up to it.
\* Faulty variant TakeKeep: the slot is read, not emptied.)
TakeResize(store, id) ==
    IF id + 1 \in 1..Len(store)
    THEN <<store[id + 1], [store EXCEPT ![id + 1] = None]>>
    ELSE <<None, [i \in 1..(id + 1) |-> IF i <= Len(store) THEN store[i] ELSE None]>>
TakeKeep(store, id) ==
    IF id + 1 \in 1..Len(store) THEN <<store[id + 1], store>> ELSE <<None, store>>
RemoveShift(store, id) ==
    IF id + 1 \in 1..Len(store) /\ store[id + 1] # None
    THEN <<store[id + 1], SubSeq(store, 1, id) \o SubSeq(store, id + 2, Len(store))>>
    ELSE <<None, store>>
Take(store, id) ==
    IF id + 1 \in 1..Len(store)
    THEN <<store[id + 1], [store EXCEPT ![id + 1] = None]>>
    ELSE <<None, store>>

\* delete_ticket: ticket.ok_or(Error::TicketDeleteFailIdNotFound { id })
\* (Faulty variant: the error does not carry the requested id.)
OkOrWrongId(ticket, id) ==
    IF ticket # None THEN Ok(Unwrap(ticket)) ELSE Err(ErrTicketDeleteFailIdNotFound(0))
OkOr(ticket, id) ==
    IF ticket # None THEN Ok(Unwrap(ticket)) ELSE Err(ErrTicketDeleteFailIdNotFound(id))

\* ------------------------------------------------------------- responses
\* A Response: status, Set-Cookie header, body, and the Error a failure left in
\* its extensions.
Response(status, body, error) ==
    [status |-> status, set_cookie |-> None, body |-> body, error |-> error]

\* Error::into_response: a placeholder response that carries the error.
ErrorIntoResponse(e) == Response(500, <<"empty">>, Some(e))

\* The credentials POST /api/login accepts, and the token it mints.
GoodLogin == <<"admin", "admin">>
BadLogin == <<"admin", "wrong">>
MintedToken == Token(1)

\* parse_token: "user-<id>.<exp>.<sign>" gives the user id.
parse_token(token) ==
    IF Len(token) = 4 /\ token[1] = "user"
    THEN Ok(token[2])
    ELSE Err(ErrTokenWrongFormat)

\* mw_ctx_resolver: cookie -> Result<Ctx>, stored in the request extensions.
Resolve(token) ==
    IF token = NoCookie THEN Err(ErrNoAuthTokenCookie) ELSE parse_token(token)

\* The Ctx extractor: the Result<Ctx> of the request extensions, or
\* AuthFailCtxNotInRequestExt when the resolver left none.
ExtractCtx(ext) == IF ext = None THEN Err(ErrCtxNotInRequestExt) ELSE Unwrap(ext)

\* ----------------------------------------------------------- error model
\* Error::client_status_and_error: <<status, client error>>.
client_status_and_error(e) ==
    CASE e[1] = "LoginFail" -> <<401, <<"LoginFail">>>>
      [] e[1] = "AuthFailNoAuthTokenCookie" -> <<401, <<"AuthFailNoAuthTokenCookie">>>>
      [] e[1] = "AuthFailTokenWrongFormat" -> <<401, <<"AuthFailTokenWrongFormat">>>>
      [] e[1] = "AuthFailCtxNotInRequestExt" -> <<401, <<"AuthFailCtxNotInRequestExt">>>>
      [] e[1] = "TicketDeleteFailIdNotFound" -> <<404, <<"TicketDeleteFailIdNotFound", e[2]>>>>
      [] OTHER -> <<500, <<"SERVICE_ERROR">>>>

\* client_error.as_ref(): the variant's name, without its fields.
\* (Faulty variant: the Debug form, which shows the fields.)
as_ref_debug(client_error) ==
    IF Len(client_error) = 1 THEN client_error[1] ELSE "TicketDeleteFailIdNotFound { id }"
as_ref(client_error) == client_error[1]

\* ------------------------------------------------------- response mapper
\* Uuid::new_v4(): a value no earlier call returned (drawn = calls so far).
\* (Faulty variant: one uuid drawn for the process, not per request.)
new_v4_static(drawn) == 1
new_v4(drawn) == drawn + 1

\* uuid.to_string(): the digits of the uuid.
RECURSIVE Digits(_)
Digits(n) == IF n < 10 THEN <<n>> ELSE Digits(n \div 10) \o <<n % 10>>
to_string(uuid) == Digits(uuid)

\* res.extensions().get::<Error>().map(|e| e.client_status_and_error())
client_status_error(res) ==
    IF res.error = None THEN None ELSE Some(client_status_and_error(Unwrap(res.error)))

\* (*status_code, Json({"error": {"type": ..., "req_uuid": ...}})).into_response()
error_response(cse, uuid) ==
    IF cse = None
    THEN None
    ELSE Some(Response(Unwrap(cse)[1],
                       <<"error", [type |-> as_ref(Unwrap(cse)[2]),
                                   req_uuid |-> to_string(uuid)]>>,
                       None))

\* error_response.unwrap_or(res)
\* (Faulty variant: the built error response is dropped.)
unwrap_or_default(opt, default) == default
unwrap_or(opt, default) == IF opt = None THEN default ELSE Unwrap(opt)

\* What main_response_mapper returns for res, with uuid drawn for the request.
\* (Faulty variant: an envelope is built whether or not an error is attached.)
MapResponseAlways(res, uuid) ==
    IF res.error = None
    THEN Response(res.status, <<"error", [type |-> "", req_uuid |-> to_string(uuid)]>>, None)
    ELSE Unwrap(error_response(client_status_error(res), uuid))
MapResponse(res, uuid) == unwrap_or(error_response(client_status_error(res), uuid), res)

\* The record main_response_mapper hands to log_request.
LogRecord(uuid, path, ctx, res) ==
    [uuid |-> to_string(uuid), path |-> path, ctx |-> ctx, error |-> res.error,
     client_error |-> IF client_status_error(res) = None THEN None
                      ELSE Some(as_ref(Unwrap(client_status_error(res))[2]))]

\* ----------------------------------------------------------------- state
VARIABLES
    tickets_store,   \* Vec<Option<Ticket>> behind the Mutex
    lock,            \* the Mutex: 0 free, else the worker holding the guard
    conn,            \* per worker: the request in flight and how far it got
    nreq,            \* requests accepted so far
    drawn,           \* Uuid::new_v4() calls so far
    log,             \* the uuid of each record handed to log_request, in order
    created,         \* ids returned by create_ticket, in call order
    deleted,         \* ids for which delete_ticket returned the ticket
    not_found,       \* ids for which delete_ticket failed
    never_issued,    \* those of not_found that were out of range when it failed
    issued,          \* the tickets returned by create_ticket, in call order
    cookies          \* the client's cookie store: the auth-token it holds, if any

vars == <<tickets_store, lock, conn, nreq, drawn, log, created, deleted, not_found,
          never_issued, issued, cookies>>
store_hist == <<created, deleted, not_found, never_issued, issued>>

\* A worker between requests. ext: the Result<Ctx> in the request extensions;
\* jar: the cookie the request added; res: the response handed to the mapper;
\* mapped: what the mapper returned; out: the response on the wire; ran: the
\* handler was entered; seen: what a list_tickets call found deleted, refused
\* as already deleted, and issued, when it ran; tmp: the local a method holds
\* between two statements under the guard.
Idle ==
    [pc |-> "idle", path |-> "", token |-> NoCookie, arg |-> None, ext |-> None,
     jar |-> None, res |-> None, mapped |-> None, out |-> None, ran |-> FALSE,
     passes |-> 0, uuid |-> 0, logged |-> None, log_ok |-> TRUE, seen |-> None,
     tmp |-> None]

Init ==
    /\ tickets_store = <<>>
    /\ lock = 0
    /\ conn = [w \in Workers |-> Idle]
    /\ nreq = 0
    /\ drawn = 0
    /\ log = <<>>
    /\ created = <<>>
    /\ deleted = {}
    /\ not_found = {}
    /\ never_issued = {}
    /\ issued = <<>>
    /\ cookies = NoCookie

\* The arguments a request to path can carry.
Args(path) ==
    CASE path = CREATE -> Titles
      [] path = DELETE -> 0..MaxId
      [] path = LOGIN -> {GoodLogin, BadLogin}
      [] OTHER -> {None}

Set(w, c) == conn' = [conn EXCEPT ![w] = c]

\* ------------------------------------------------------------ the actions
\* A request arrives; the router sends it to a layered route or to the fallback.
NewRequest(w) ==
    /\ conn[w].pc = "idle"
    /\ nreq < MaxRequests
    /\ \E path \in Paths, token \in Tokens :
         \E arg \in Args(path) :
           Set(w, [Idle EXCEPT !.pc = IF path \in layered_routes
                                        THEN "mw_ctx_resolver"
                                        ELSE "fallback_service",
                               !.path = path, !.token = token, !.arg = arg])
    /\ nreq' = nreq + 1
    /\ UNCHANGED <<tickets_store, lock, drawn, log, store_hist, cookies>>

\* get_service(ServeDir::new("./")): no layer wraps it.
fallback_service(w) ==
    /\ conn[w].pc = "fallback_service"
    /\ Set(w, [conn[w] EXCEPT !.pc = "done",
                              !.out = Some(Response(200, <<"file", conn[w].path>>, None))])
    /\ UNCHANGED <<tickets_store, lock, nreq, drawn, log, store_hist, cookies>>

\* mw_ctx_resolver: resolves the context, stores the result, always runs next.
mw_ctx_resolver(w) ==
    /\ conn[w].pc = "mw_ctx_resolver"
    /\ Set(w, [conn[w] EXCEPT !.ext = Some(Resolve(conn[w].token)),
                              !.pc = IF conn[w].path \in routes_apis
                                     THEN "mw_require_auth"
                                     ELSE "handler"])
    /\ UNCHANGED <<tickets_store, lock, nreq, drawn, log, store_hist, cookies>>

\* mw_require_auth: ctx?; Ok(next.run(req).await)
mw_require_auth(w) ==
    /\ conn[w].pc = "mw_require_auth"
    /\ LET ctx == ExtractCtx(conn[w].ext)
       IN  IF IsOk(ctx)
           THEN Set(w, [conn[w] EXCEPT !.pc = "handler"])
           ELSE Set(w, [conn[w] EXCEPT !.pc = "handled",
                                       !.res = Some(ErrorIntoResponse(ctx[2]))])
    /\ UNCHANGED <<tickets_store, lock, nreq, drawn, log, store_hist, cookies>>

handler_hello(w) ==
    /\ conn[w].pc = "handler"
    /\ conn[w].path = HELLO
    /\ Set(w, [conn[w] EXCEPT !.pc = "handled",
                              !.ran = TRUE,
                              !.res = Some(Response(200, <<"html", "Hello World!">>, None))])
    /\ UNCHANGED <<tickets_store, lock, nreq, drawn, log, store_hist, cookies>>

\* api_login: the credential check, then the auth-token cookie or LoginFail.
api_login(w) ==
    /\ conn[w].pc = "handler"
    /\ conn[w].path = LOGIN
    /\ IF conn[w].arg = GoodLogin
       THEN Set(w, [conn[w] EXCEPT !.pc = "handled",
                                   !.ran = TRUE,
                                   !.jar = Some(MintedToken),
                                   !.res = Some(Response(200, <<"success">>, None))])
       ELSE Set(w, [conn[w] EXCEPT !.pc = "handled",
                                   !.ran = TRUE,
                                   !.res = Some(ErrorIntoResponse(ErrLoginFail))])
    /\ UNCHANGED <<tickets_store, lock, nreq, drawn, log, store_hist, cookies>>

\* Mutex::lock returns the guard only while no other guard is alive.
\* (Faulty variant: the guard is handed out whether or not another is alive.)
MutexShared(holder) == TRUE
MutexFree(holder) == holder = 0

\* The guard goes out of scope when the method returns: the Mutex is free.
\* (Faulty variant: the guard is leaked, as by mem::forget.)
DropLeaked(holder) == holder
Drop(holder) == 0

\* A ticket handler takes its Ctx, then self.tickets_store.lock().unwrap().
Lock(w) ==
    /\ conn[w].pc = "handler"
    /\ conn[w].path \in routes_ticket
    /\ LET ctx == ExtractCtx(conn[w].ext)
       IN  IF IsErr(ctx)
           THEN /\ Set(w, [conn[w] EXCEPT !.pc = "handled",
                                          !.res = Some(ErrorIntoResponse(ctx[2]))])
                /\ UNCHANGED lock
           ELSE /\ MutexFree(lock)
                /\ lock' = w
                /\ Set(w, [conn[w] EXCEPT !.pc = "locked", !.ran = TRUE])
    /\ UNCHANGED <<tickets_store, nreq, drawn, log, store_hist, cookies>>

\* ModelController::create_ticket, to the drop of the guard.
create_ticket(w) ==
    /\ conn[w].pc = "locked"
    /\ conn[w].path = CREATE
    /\ LET id == NewId(tickets_store)
           ticket == Ticket(id, ExtractCtx(conn[w].ext)[2], conn[w].arg)
       IN  /\ tickets_store' = Push(tickets_store, ticket)
           /\ created' = Append(created, id)
           /\ issued' = Append(issued, ticket)
           /\ Set(w, [conn[w] EXCEPT !.pc = "handled",
                                     !.res = Some(Response(200, <<"ticket", ticket>>, None))])
    /\ lock' = Drop(lock)
    /\ UNCHANGED <<nreq, drawn, log, deleted, not_found, never_issued, cookies>>

\* ModelController::list_tickets, to the drop of the guard.
\* (Faulty variant list_tickets_own: only the caller's own tickets are listed.)
list_tickets_own(w) ==
    /\ conn[w].pc = "locked"
    /\ conn[w].path = LIST
    /\ LET own == SelectSeq(FilterMap(tickets_store),
                            LAMBDA t : t.cid = ExtractCtx(conn[w].ext)[2])
       IN  Set(w, [conn[w] EXCEPT !.pc = "handled",
                                 !.seen = Some(<<deleted, not_found \ never_issued, issued>>),
                                 !.res = Some(Response(200, <<"tickets", own>>, None))])
    /\ lock' = Drop(lock)
    /\ UNCHANGED <<tickets_store, nreq, drawn, log, store_hist, cookies>>
list_tickets(w) ==
    /\ conn[w].pc = "locked"
    /\ conn[w].path = LIST
    /\ LET tickets == FilterMap(tickets_store)
       IN  Set(w, [conn[w] EXCEPT !.pc = "handled",
                                 !.seen = Some(<<deleted, not_found \ never_issued, issued>>),
                                 !.res = Some(Response(200, <<"tickets", tickets>>, None))])
    /\ lock' = Drop(lock)
    /\ UNCHANGED <<tickets_store, nreq, drawn, log, store_hist, cookies>>

\* ModelController::delete_ticket, to the drop of the guard.
delete_ticket(w) ==
    /\ conn[w].pc = "locked"
    /\ conn[w].path = DELETE
    /\ LET id == conn[w].arg
           taken == Take(tickets_store, id)
           result == OkOr(taken[1], id)
       IN  /\ tickets_store' = taken[2]
           /\ IF IsOk(result)
              THEN /\ Set(w, [conn[w] EXCEPT !.pc = "handled",
                                             !.res = Some(Response(200, <<"ticket", result[2]>>, None))])
                   /\ deleted' = deleted \cup {id}
                   /\ UNCHANGED <<not_found, never_issued>>
              ELSE /\ Set(w, [conn[w] EXCEPT !.pc = "handled",
                                             !.res = Some(ErrorIntoResponse(result[2]))])
                   /\ not_found' = not_found \cup {id}
                   /\ never_issued' = IF id >= Len(tickets_store)
                                      THEN never_issued \cup {id}
                                      ELSE never_issued
                   /\ UNCHANGED deleted
    /\ lock' = Drop(lock)
    /\ UNCHANGED <<nreq, drawn, log, created, issued, cookies>>

\* let _ = log_request(...).await: the result of the log call is dropped.
\* (Faulty variant: a failed log call becomes the response.)
AfterLogPropagate(response, log_ok) ==
    IF log_ok THEN response ELSE ErrorIntoResponse(ErrOther)
AfterLog(response, log_ok) == response

\* main_response_mapper: one uuid, the mapped response, one call of log_request.
main_response_mapper(w) ==
    /\ conn[w].pc = "handled"
    /\ \E log_ok \in BOOLEAN :
         LET uuid == new_v4(drawn)
             res == Unwrap(conn[w].res)
             ctx == ExtractCtx(conn[w].ext)
             record == LogRecord(uuid, conn[w].path, ctx, res)
         IN  /\ log' = Append(log, record.uuid)
             /\ Set(w, [conn[w] EXCEPT !.pc = "cookie_layer",
                                       !.uuid = uuid,
                                       !.passes = @ + 1,
                                       !.logged = Some(record),
                                       !.log_ok = log_ok,
                                       !.mapped = Some(AfterLog(MapResponse(res, uuid), log_ok))])
    /\ drawn' = drawn + 1
    /\ UNCHANGED <<tickets_store, lock, nreq, store_hist, cookies>>

\* CookieManagerLayer, on the way out: the cookies the request added become
\* the Set-Cookie header of whatever response comes back.
CookieManagerLayer(w) ==
    /\ conn[w].pc = "cookie_layer"
    /\ Set(w, [conn[w] EXCEPT !.pc = "done",
                              !.out = Some([Unwrap(conn[w].mapped) EXCEPT
                                              !.set_cookie = conn[w].jar])])
    /\ UNCHANGED <<tickets_store, lock, nreq, drawn, log, store_hist, cookies>>

\* The response is on the wire; the worker takes the next request. The client
\* (quick_dev: httpc_test keeps a cookie store) stores the cookie it was sent.
Finish(w) ==
    /\ conn[w].pc = "done"
    /\ Set(w, Idle)
    /\ cookies' = IF Unwrap(conn[w].out).set_cookie = None
                  THEN cookies
                  ELSE Unwrap(Unwrap(conn[w].out).set_cookie)
    /\ UNCHANGED <<tickets_store, lock, nreq, drawn, log, store_hist>>

Next ==
    \E w \in Conns :
        \/ NewRequest(w)
        \/ fallback_service(w)
        \/ mw_ctx_resolver(w)
        \/ mw_require_auth(w)
        \/ handler_hello(w)
        \/ api_login(w)
        \/ Lock(w)
        \/ create_ticket(w)
        \/ list_tickets(w)
        \/ delete_ticket(w)
        \/ main_response_mapper(w)
        \/ CookieManagerLayer(w)
        \/ Finish(w)

Spec == Init /\ [][Next]_vars

\* --------------------------------------- the session of quick_dev's client
\* The client of tests/quick_dev.rs sends every request through one httpc_test
\* client, which attaches the cookie its store holds.
ClientRequest(w) ==
    /\ conn[w].pc = "idle"
    /\ nreq < MaxSession
    /\ \E path \in Paths :
         \E arg \in Args(path) :
           Set(w, [Idle EXCEPT !.pc = IF path \in layered_routes
                                        THEN "mw_ctx_resolver"
                                        ELSE "fallback_service",
                               !.path = path, !.token = cookies, !.arg = arg])
    /\ nreq' = nreq + 1
    /\ UNCHANGED <<tickets_store, lock, drawn, log, store_hist, cookies>>

NextSession ==
    \E w \in Conns :
        \/ ClientRequest(w)
        \/ fallback_service(w)
        \/ mw_ctx_resolver(w)
        \/ mw_require_auth(w)
        \/ handler_hello(w)
        \/ api_login(w)
        \/ Lock(w)
        \/ create_ticket(w)
        \/ list_tickets(w)
        \/ delete_ticket(w)
        \/ main_response_mapper(w)
        \/ CookieManagerLayer(w)
        \/ Finish(w)

SpecSession == Init /\ [][NextSession]_vars

\* ------------------------------------------- the store under its callers
\* A caller holding a Ctx calls one ModelController method.
Call(w) ==
    /\ conn[w].pc = "idle"
    /\ nreq < MaxCalls
    /\ \E path \in routes_ticket, user \in Users :
         \E arg \in Args(path) :
           Set(w, [Idle EXCEPT !.pc = "handler", !.path = path, !.arg = arg,
                               !.token = Token(user),
                               !.ext = Some(Resolve(Token(user)))])
    /\ nreq' = nreq + 1
    /\ UNCHANGED <<tickets_store, lock, drawn, log, store_hist, cookies>>

\* The method has returned its Result to the caller.
Return(w) ==
    /\ conn[w].pc = "handled"
    /\ Set(w, Idle)
    /\ UNCHANGED <<tickets_store, lock, nreq, drawn, log, store_hist, cookies>>

NextStore ==
    \E w \in Workers :
        \/ Call(w)
        \/ Lock(w)
        \/ create_ticket(w)
        \/ list_tickets(w)
        \/ delete_ticket(w)
        \/ Return(w)

SpecStore == Init /\ [][NextStore]_vars

\* ------------------------------- the store, statement by statement
\* The same methods with each statement under the guard as a step of its own,
\* so that what the Mutex excludes is visible.

\* create_ticket: let id = store.len() as u64
create_ticket_id(w) ==
    /\ conn[w].pc = "locked"
    /\ conn[w].path = CREATE
    /\ Set(w, [conn[w] EXCEPT !.pc = "pushing", !.tmp = Some(NewId(tickets_store))])
    /\ UNCHANGED <<tickets_store, lock, nreq, drawn, log, store_hist, cookies>>

\* create_ticket: store.push(Some(ticket.clone())); Ok(ticket); the guard drops.
create_ticket_push(w) ==
    /\ conn[w].pc = "pushing"
    /\ LET id == Unwrap(conn[w].tmp)
           ticket == Ticket(id, ExtractCtx(conn[w].ext)[2], conn[w].arg)
       IN  /\ tickets_store' = Push(tickets_store, ticket)
           /\ created' = Append(created, id)
           /\ issued' = Append(issued, ticket)
           /\ Set(w, [conn[w] EXCEPT !.pc = "handled",
                                     !.res = Some(Response(200, <<"ticket", ticket>>, None))])
    /\ lock' = Drop(lock)
    /\ UNCHANGED <<nreq, drawn, log, deleted, not_found, never_issued, cookies>>

\* delete_ticket: store.get_mut(id as usize): the slot, as take() finds it.
delete_ticket_get(w) ==
    /\ conn[w].pc = "locked"
    /\ conn[w].path = DELETE
    /\ Set(w, [conn[w] EXCEPT !.pc = "taking",
                              !.tmp = Some(Take(tickets_store, conn[w].arg)[1])])
    /\ UNCHANGED <<tickets_store, lock, nreq, drawn, log, store_hist, cookies>>

\* delete_ticket: take() leaves None in the slot; ok_or; the guard drops.
delete_ticket_take(w) ==
    /\ conn[w].pc = "taking"
    /\ LET id == conn[w].arg
           result == OkOr(Unwrap(conn[w].tmp), id)
       IN  /\ tickets_store' = Take(tickets_store, id)[2]
           /\ IF IsOk(result)
              THEN /\ Set(w, [conn[w] EXCEPT !.pc = "handled",
                                             !.res = Some(Response(200, <<"ticket", result[2]>>, None))])
                   /\ deleted' = deleted \cup {id}
                   /\ UNCHANGED <<not_found, never_issued>>
              ELSE /\ Set(w, [conn[w] EXCEPT !.pc = "handled",
                                             !.res = Some(ErrorIntoResponse(result[2]))])
                   /\ not_found' = not_found \cup {id}
                   /\ never_issued' = IF id >= Len(tickets_store)
                                      THEN never_issued \cup {id}
                                      ELSE never_issued
                   /\ UNCHANGED deleted
    /\ lock' = Drop(lock)
    /\ UNCHANGED <<nreq, drawn, log, created, issued, cookies>>

\* The request is aborted: its future is dropped. The methods have no .await,
\* so a future is dropped only before its first poll, never under the guard.
Abort(w) ==
    /\ conn[w].pc = "handler"
    /\ Set(w, Idle)
    /\ UNCHANGED <<tickets_store, lock, nreq, drawn, log, store_hist, cookies>>

NextLock ==
    \E w \in Workers :
        \/ Call(w)
        \/ Abort(w)
        \/ Lock(w)
        \/ create_ticket_id(w)
        \/ create_ticket_push(w)
        \/ list_tickets(w)
        \/ delete_ticket_get(w)
        \/ delete_ticket_take(w)
        \/ Return(w)

SpecLock == Init /\ [][NextLock]_vars

\* Fair scheduling: a task that can run is run, and a task waiting on the Mutex
\* gets it if it is free again and again.
UnderGuard(w) ==
    \/ create_ticket_id(w)
    \/ create_ticket_push(w)
    \/ list_tickets(w)
    \/ delete_ticket_get(w)
    \/ delete_ticket_take(w)
FairLock ==
    \A w \in Workers :
        /\ SF_vars(Lock(w))
        /\ WF_vars(UnderGuard(w))

\* A task holding a Ctx calls one ModelController method.
Spawn(w) ==
    /\ conn[w].pc = "idle"
    /\ nreq < MaxTasks
    /\ \E path \in routes_ticket, user \in Users :
         \E arg \in Args(path) :
           Set(w, [Idle EXCEPT !.pc = "handler", !.path = path, !.arg = arg,
                               !.token = Token(user),
                               !.ext = Some(Resolve(Token(user)))])
    /\ nreq' = nreq + 1
    /\ UNCHANGED <<tickets_store, lock, drawn, log, store_hist, cookies>>

NextLockFair ==
    \E w \in Workers :
        \/ Spawn(w)
        \/ Abort(w)
        \/ Lock(w)
        \/ create_ticket_id(w)
        \/ create_ticket_push(w)
        \/ list_tickets(w)
        \/ delete_ticket_get(w)
        \/ delete_ticket_take(w)
        \/ Return(w)

SpecLockFair == Init /\ [][NextLockFair]_vars /\ FairLock

\* -------------------------------------------- the mapper over every error
\* Every Error kind, and the responses a handler or middleware can hand to
\* main_response_mapper: one per error kind, and one without an error.
Errors ==
    {ErrLoginFail, ErrNoAuthTokenCookie, ErrTokenWrongFormat, ErrCtxNotInRequestExt,
     ErrOther} \cup {ErrTicketDeleteFailIdNotFound(id) : id \in 0..MaxId}
MapperInputs ==
    {ErrorIntoResponse(e) : e \in Errors}
        \cup {Response(200, <<"html", "Hello World!">>, None)}

InitMapper ==
    /\ tickets_store = <<>>
    /\ lock = 0
    /\ conn \in [Workers -> {[Idle EXCEPT !.pc = "handled", !.path = HELLO,
                                          !.ext = Some(Resolve(NoCookie)),
                                          !.res = Some(r)] : r \in MapperInputs}]
    /\ nreq = NumWorkers
    /\ drawn = 0
    /\ log = <<>>
    /\ created = <<>>
    /\ deleted = {}
    /\ not_found = {}
    /\ never_issued = {}
    /\ issued = <<>>
    /\ cookies = NoCookie

NextMapper ==
    \E w \in Workers :
        \/ main_response_mapper(w)
        \/ CookieManagerLayer(w)
        \/ Finish(w)

SpecMapper == InitMapper /\ [][NextMapper]_vars

\* ================================================================ claims
\* Helpers of the claims: the ids of a list of tickets, the step in which worker
\* w runs delete_ticket, and whether id is a live slot of the store.
Ids(tickets) == {tickets[i].id : i \in 1..Len(tickets)}
DeleteStep(w) ==
    conn[w].pc = "locked" /\ conn[w].path = DELETE /\ conn'[w].pc = "handled"
ListStep(w) ==
    conn[w].pc = "locked" /\ conn[w].path = LIST /\ conn'[w].pc = "handled"
Listed(w) == Unwrap(conn[w].res).body[2]
Present(store, id) == id + 1 \in 1..Len(store) /\ store[id + 1] # None

\* C1: the i-th create_ticket call (from 0, in call order) returns id i, so N
\* calls return exactly 0..N-1, whatever lists and deletes run in between.
C1_CreateIdsInCallOrder ==
    \A i \in 1..Len(created) : created[i] = i - 1

\* C1 witness: three creates have returned, with a delete among them.
C1_Witness ==
    /\ Len(created) >= 3
    /\ deleted # {}

\* C2 (as claimed): a delete of a tombstoned or never-issued id fails with
\* TicketDeleteFailIdNotFound{id}, and every later list omits that id.
C2_Original ==
    [][/\ \A w \in Workers :
            (DeleteStep(w) /\ ~Present(tickets_store, conn[w].arg))
                => Unwrap(conn'[w].res) =
                       ErrorIntoResponse(ErrTicketDeleteFailIdNotFound(conn[w].arg))
       /\ \A w \in Workers :
            ListStep(w) => \A id \in not_found : id \notin Ids(Listed(w)')]_vars

\* C2 (amended): such a delete fails with TicketDeleteFailIdNotFound{id}; a later
\* list omits the id unless it was out of range when the delete failed and a
\* create has issued it since.
C2_DeleteMissingFails ==
    [][/\ \A w \in Workers :
            (DeleteStep(w) /\ ~Present(tickets_store, conn[w].arg))
                => /\ Unwrap(conn'[w].res) =
                          ErrorIntoResponse(ErrTicketDeleteFailIdNotFound(conn[w].arg))
                   /\ tickets_store' = tickets_store
       /\ \A w \in Workers :
            ListStep(w)
                => \A id \in not_found :
                      id \in Ids(Listed(w)')
                          => /\ id \in never_issued
                             /\ \E i \in 1..Len(created) : created[i] = id]_vars

\* C2 witness: a list has run after a delete of a tombstoned id failed.
C2_Witness ==
    \E w \in Workers :
        /\ conn[w].seen # None
        /\ Unwrap(conn[w].seen)[2] # {}

\* C3: a delete of a present id returns the ticket, empties that slot only (same
\* length, every other slot as before), and every later list omits the id.
C3_DeletePresentFrame ==
    [][/\ \A w \in Workers :
            (DeleteStep(w) /\ Present(tickets_store, conn[w].arg))
                => LET id == conn[w].arg
                   IN  /\ Unwrap(conn'[w].res) =
                              Response(200, <<"ticket", Unwrap(tickets_store[id + 1])>>, None)
                       /\ Len(tickets_store') = Len(tickets_store)
                       /\ tickets_store'[id + 1] = None
                       /\ \A j \in 1..Len(tickets_store) :
                             j # id + 1 => tickets_store'[j] = tickets_store[j]
       /\ \A w \in Workers :
            ListStep(w) => \A id \in deleted : id \notin Ids(Listed(w)')]_vars

\* C3 witness: after a delete of a present id, a list returned another ticket.
C3_Witness ==
    \E w \in Workers :
        /\ conn[w].seen # None
        /\ Unwrap(conn[w].seen)[1] # {}
        /\ Listed(w) # <<>>

\* Helpers of the pipeline claims: worker w's response has left the mapper; the
\* error envelope main_response_mapper builds.
Mapped(w) == conn[w].mapped # None
Envelope(type, uuid) == <<"error", [type |-> type, req_uuid |-> to_string(uuid)]>>

\* C4: a request to GET/POST /api/tickets or DELETE /api/tickets/{id} whose
\* context resolution failed gets 401 and the label of the reason
\* (AuthFailNoAuthTokenCookie without a cookie), and its handler never runs.
C4_ProtectedRouteFailsClosed ==
    \A w \in Workers :
        (conn[w].path \in {LIST, CREATE, DELETE} /\ conn[w].token \in {NoCookie, MalformedToken})
            => /\ ~conn[w].ran
               /\ conn[w].pc \notin {"handler", "locked"}
               /\ lock # w
               /\ conn[w].pc = "done"
                    => LET out == Unwrap(conn[w].out)
                           type == IF conn[w].token = NoCookie
                                   THEN "AuthFailNoAuthTokenCookie"
                                   ELSE "AuthFailTokenWrongFormat"
                       IN  /\ out.status = 401
                           /\ out.body = Envelope(type, conn[w].uuid)

\* C4 witness: a protected request without a cookie has been answered.
C4_Witness ==
    \E w \in Workers :
        /\ conn[w].pc = "done"
        /\ conn[w].path = CREATE
        /\ conn[w].token = NoCookie

\* C5: a request without a usable token still reaches routing: on the
\* unprotected routes the handler runs and the response is the handler's own.
C5_ResolverNeverFailsRequest ==
    \A w \in Workers :
        (conn[w].path \in {HELLO, LOGIN} /\ conn[w].token \in {NoCookie, MalformedToken})
            => /\ conn[w].ext # None => conn[w].pc # "mw_require_auth"
               /\ conn[w].res # None => conn[w].ran
               /\ conn[w].pc = "done"
                    => LET out == Unwrap(conn[w].out)
                       IN  CASE conn[w].path = HELLO ->
                                    out = Response(200, <<"html", "Hello World!">>, None)
                             [] conn[w].arg = GoodLogin ->
                                    out = [Response(200, <<"success">>, None)
                                             EXCEPT !.set_cookie = Some(MintedToken)]
                             [] OTHER ->
                                    /\ out.status = 401
                                    /\ out.body = Envelope("LoginFail", conn[w].uuid)

\* C5 witness: a login without a cookie was served and set the cookie.
C5_Witness ==
    \E w \in Workers :
        /\ conn[w].pc = "done"
        /\ conn[w].path = LOGIN
        /\ conn[w].token = NoCookie
        /\ Unwrap(conn[w].out).set_cookie = Some(MintedToken)

\* C6 (as claimed): every response on the wire went through
\* main_response_mapper exactly once, the fallback service's included.
C6_EveryResponseMappedOnce ==
    \A w \in Workers : conn[w].pc = "done" => conn[w].passes = 1

\* C7: main_response_mapper returns a new response exactly when an Error is
\* attached: then the mapped status and {error:{type, req_uuid}}; else its
\* input, unchanged.
C7_MapperReplacesIffError ==
    \A w \in Workers :
        Mapped(w)
            => LET res == Unwrap(conn[w].res)
                   mapped == Unwrap(conn[w].mapped)
               IN  IF res.error = None
                   THEN mapped = res
                   ELSE LET cse == client_status_and_error(Unwrap(res.error))
                        IN  /\ mapped # res
                            /\ mapped.status = cse[1]
                            /\ mapped.body = Envelope(cse[2][1], conn[w].uuid)
                            /\ mapped.error = None

\* C7 witness: the mapper has replaced the response of a failed delete, after
\* an earlier pass.
C7_Witness ==
    \E w \in Workers :
        /\ Mapped(w)
        /\ conn[w].path = DELETE
        /\ Unwrap(conn[w].res).error # None
        /\ drawn >= 2

C9_OneLogRecordFailureSwallowed ==
    /\ Len(log) = drawn
    /\ \A w \in Workers :
          Mapped(w)
              => /\ conn[w].passes = 1
                 /\ conn[w].logged # None
                 /\ Cardinality({i \in 1..Len(log) :
                                    log[i] = Unwrap(conn[w].logged).uuid}) = 1
                 /\ Unwrap(conn[w].mapped) =
                        MapResponse(Unwrap(conn[w].res), conn[w].uuid)

\* C9 witness: a response with an error was mapped while the log call failed,
\* after an earlier pass.
C9_Witness ==
    \E w \in Workers :
        /\ Mapped(w)
        /\ ~conn[w].log_ok
        /\ Unwrap(conn[w].res).error # None
        /\ Len(log) >= 2

\* C10: the req_uuid of an error envelope is not empty, is the uuid of the log
\* record of the same request, and is the uuid of no other request.
C10_CorrelationIdUnique ==
    \A w \in Workers :
        (Mapped(w) /\ Unwrap(conn[w].res).error # None)
            => LET req_uuid == Unwrap(conn[w].mapped).body[2].req_uuid
               IN  /\ req_uuid # <<>>
                   /\ req_uuid = Unwrap(conn[w].logged).uuid
                   /\ Cardinality({i \in 1..Len(log) : log[i] = req_uuid}) = 1
                   /\ \A v \in Workers \ {w} :
                         conn[v].logged # None
                             => Unwrap(conn[v].logged).uuid # req_uuid

\* C10 witness: an error envelope was sent after an earlier request was logged.
C10_Witness ==
    \E w \in Workers :
        /\ conn[w].pc = "done"
        /\ Mapped(w)
        /\ Unwrap(conn[w].res).error # None
        /\ Len(log) >= 2
        /\ log[Len(log)] = Unwrap(conn[w].logged).uuid

\* C11: in a session, a request carries a cookie only after a login set it; a
\* POST /api/tickets with it passes the gate, runs the handler and returns a
\* ticket owned by the resolved user with the submitted title; a GET
\* /api/tickets with it returns every ticket created before and not deleted.
C11_SessionCreateThenList ==
    /\ cookies \in {NoCookie, MintedToken}
    /\ \A w \in Workers :
          (conn[w].pc = "done" /\ conn[w].token # NoCookie)
              => LET out == Unwrap(conn[w].out)
                 IN  CASE conn[w].path = CREATE ->
                              /\ conn[w].ran
                              /\ out.status = 200
                              /\ out.body[1] = "ticket"
                              /\ Ok(out.body[2].cid) = Unwrap(conn[w].ext)
                              /\ out.body[2].title = conn[w].arg
                       [] conn[w].path = LIST ->
                              /\ conn[w].ran
                              /\ out.status = 200
                              /\ out.body[1] = "tickets"
                              /\ LET before == Unwrap(conn[w].seen)
                                 IN  \A i \in 1..Len(before[3]) :
                                        before[3][i].id \notin before[1]
                                            => \E j \in 1..Len(out.body[2]) :
                                                  out.body[2][j] = before[3][i]
                       [] OTHER -> TRUE

\* C11 witness: after a login and a create, a list with the cookie has returned
\* the ticket of user 1 with the submitted title.
C11_Witness ==
    \E w \in Workers :
        /\ conn[w].pc = "done"
        /\ conn[w].path = LIST
        /\ conn[w].token = MintedToken
        /\ Unwrap(conn[w].out).body = <<"tickets", <<Ticket(0, 1, "My first ticket")>>>>

\* C12: a delete of the id of a ticket that create_ticket returned and no
\* delete has returned since gives back that very ticket (id, owner, title),
\* whatever ran in between; from then on a list omits it, and another delete of
\* the id fails with TicketDeleteFailIdNotFound, which maps to 404.
C12_CreateDeleteRoundTrip ==
    [][/\ \A w \in Workers :
            DeleteStep(w)
                => LET id == conn[w].arg
                   IN  \A i \in 1..Len(issued) :
                          issued[i].id = id
                              => IF id \notin deleted
                                 THEN /\ Unwrap(conn'[w].res) =
                                            Response(200, <<"ticket", issued[i]>>, None)
                                      /\ id \in deleted'
                                 ELSE LET e == Unwrap(conn'[w].res).error
                                      IN  /\ e = Some(ErrTicketDeleteFailIdNotFound(id))
                                          /\ client_status_and_error(Unwrap(e))[1] = 404
       /\ \A w \in Workers :
            ListStep(w)
                => \A j \in 1..Len(Listed(w)') : Listed(w)'[j].id \notin deleted]_vars

\* C12 witness: with two tickets issued, a second delete of id 0 has failed
\* after the first returned the ticket.
C12_Witness ==
    \E w \in Workers :
        /\ conn[w].pc = "handled"
        /\ conn[w].path = DELETE
        /\ conn[w].arg = 0
        /\ 0 \in deleted
        /\ Unwrap(conn[w].res).error # None
        /\ Len(issued) >= 2

\* The step in which worker w runs create_ticket, and the user id of w's Ctx.
CreateStep(w) ==
    conn[w].pc = "locked" /\ conn[w].path = CREATE /\ conn'[w].pc = "handled"
UserId(w) == Unwrap(conn[w].ext)[2]

\* C13: create_ticket records the caller's user id as the owner; list_tickets
\* returns the ticket of every live slot and delete_ticket returns the ticket of
\* any live slot, whoever the caller is: both results are determined by the
\* store (and the id) alone.
C13_OwnershipNotEnforced ==
    [][\A w \in Workers :
          /\ CreateStep(w)
                => Unwrap(conn'[w].res).body[2].cid = UserId(w)
          /\ ListStep(w)
                => LET live == {i \in 1..Len(tickets_store) : tickets_store[i] # None}
                   IN  /\ Len(Listed(w)') = Cardinality(live)
                       /\ \A i \in live :
                             \E j \in 1..Len(Listed(w)') :
                                Listed(w)'[j] = Unwrap(tickets_store[i])
          /\ (DeleteStep(w) /\ Present(tickets_store, conn[w].arg))
                => /\ Unwrap(conn'[w].res).status = 200
                   /\ Unwrap(conn'[w].res).body =
                          <<"ticket", Unwrap(tickets_store[conn[w].arg + 1])>>]_vars

\* C13 witness: user 2 has listed a ticket of user 1, and user 2 has deleted a
\* ticket of user 1.
C13_Witness ==
    \E w, v \in Workers :
        /\ conn[w].pc = "handled" /\ conn[w].path = LIST /\ UserId(w) = 2
        /\ \E j \in 1..Len(Listed(w)) : Listed(w)[j].cid = 1
        /\ conn[v].pc = "handled" /\ conn[v].path = DELETE /\ UserId(v) = 2
        /\ Unwrap(conn[v].res).error = None
        /\ Unwrap(conn[v].res).body[2].cid = 1

\* The workers inside a critical section of the store.
Holders == {w \in Workers : conn[w].pc \in {"locked", "pushing", "taking"}}

\* C14: under any interleaving, with aborts, at most one request is under the
\* guard; the store and every result are those of running the operations one at
\* a time in the order they dropped the guard: the i-th create returned id i-1
\* (so no two creates share an id), each slot holds the ticket issued for it or
\* None once a delete returned it, and what a method read under the guard is
\* still what the store holds when it writes.
C14_AtomicUnderLock ==
    /\ Cardinality(Holders) <= 1
    /\ \A w \in Workers : w \in Holders <=> lock = w
    /\ \A i, j \in 1..Len(created) : i # j => created[i] # created[j]
    /\ Len(tickets_store) = Len(issued)
    /\ \A i \in 1..Len(issued) :
          /\ issued[i].id = i - 1
          /\ tickets_store[i] = IF i - 1 \in deleted THEN None ELSE Some(issued[i])
    /\ \A w \in Workers :
          /\ conn[w].pc = "pushing" => Unwrap(conn[w].tmp) = Len(tickets_store)
          /\ conn[w].pc = "taking"
                => Unwrap(conn[w].tmp) = Take(tickets_store, conn[w].arg)[1]

\* C14 witness: a create holds the guard between reading the length and
\* pushing, while another create waits for the guard, after an earlier create.
C14_Witness ==
    \E w, v \in Workers :
        /\ conn[w].pc = "pushing"
        /\ conn[v].pc = "handler"
        /\ conn[v].path = CREATE
        /\ Len(created) >= 1

\* C15: every slot below the length is empty or holds a ticket whose id is the
\* slot's index, and is empty exactly when a delete has returned that id.
C15_SlotInvariant ==
    \A i \in 1..Len(tickets_store) :
        /\ tickets_store[i] # None => Unwrap(tickets_store[i]).id = i - 1
        /\ tickets_store[i] = None <=> i - 1 \in deleted

\* C15 witness: an emptied slot below a live one.
C15_Witness ==
    /\ Len(tickets_store) >= 2
    /\ tickets_store[1] = None
    /\ tickets_store[2] # None

\* C16: no step shrinks the store, and each create returns an id above every
\* id issued before it, deleted or not.
C16_IdsNeverReused ==
    [][/\ Len(tickets_store') >= Len(tickets_store)
       /\ \A w \in Workers :
            CreateStep(w)
                => \A i \in 1..Len(created) :
                      Unwrap(conn'[w].res).body[2].id > created[i]]_vars

\* C16 witness: a create has returned after the delete of an earlier ticket.
C16_Witness ==
    /\ Len(created) >= 2
    /\ 0 \in deleted
    /\ tickets_store[Len(tickets_store)] # None
    /\ tickets_store[1] = None
    /\ \E w \in Workers :
          /\ conn[w].pc = "handled"
          /\ conn[w].path = CREATE
          /\ Unwrap(conn[w].res).body[2].id = Len(created) - 1
          /\ conn[w].seen = None

\* C17: list_tickets returns Ok, leaves the store as it was, and returns the
\* tickets that create_ticket issued and no delete has returned: all of them,
\* each once, by ascending id.
C17_ListExactlyLive ==
    [][\A w \in Workers :
          ListStep(w)
              => LET res == Unwrap(conn'[w].res)
                     tickets == res.body[2]
                     live == {i \in 1..Len(issued) : issued[i].id \notin deleted}
                 IN  /\ res.error = None
                     /\ res.status = 200
                     /\ tickets_store' = tickets_store
                     /\ {tickets[j] : j \in 1..Len(tickets)} = {issued[i] : i \in live}
                     /\ Len(tickets) = Cardinality(live)
                     /\ \A j, k \in 1..Len(tickets) :
                           j < k => tickets[j].id < tickets[k].id]_vars

\* C17 witness: a list has returned two tickets, in id order.
C17_Witness ==
    \E w \in Workers :
        /\ conn[w].pc = "handled"
        /\ conn[w].path = LIST
        /\ Len(Listed(w)) = 2
        /\ Listed(w)[1].id < Listed(w)[2].id

\* C18: a delete_ticket call that fails with TicketDeleteFailIdNotFound changes
\* neither the length nor any slot of the store, whether the id was out of
\* range or its slot already empty.
C18_FailedDeleteLeavesStore ==
    [][\A w \in Workers :
          (DeleteStep(w) /\ Unwrap(conn'[w].res).error # None)
              => /\ Unwrap(Unwrap(conn'[w].res).error)[1] = "TicketDeleteFailIdNotFound"
                 /\ Len(tickets_store') = Len(tickets_store)
                 /\ \A i \in 1..Len(tickets_store) :
                       tickets_store'[i] = tickets_store[i]]_vars

\* C18 witness: deletes have failed on an out-of-range id and on an emptied
\* slot.
C18_Witness ==
    /\ never_issued # {}
    /\ not_found \ never_issued # {}
    /\ Len(tickets_store) >= 1

\* The step in which worker w's delete_ticket empties the slot and returns.
TakeStep(w) == conn[w].pc = "taking" /\ conn'[w].pc = "handled"

\* C19: of the requests that delete the same present id at once, the one that
\* gets the guard first returns the ticket and every other fails with
\* TicketDeleteFailIdNotFound for that id: a ticket is returned at most once.
C19_OneDeleteWins ==
    [][\A w \in Workers :
          TakeStep(w)
              => LET id == conn[w].arg
                     res == Unwrap(conn'[w].res)
                 IN  /\ res.error = None
                          => /\ id \notin deleted
                             /\ res.body = <<"ticket", issued[id + 1]>>
                     /\ (id \notin deleted /\ id < Len(issued)) => res.error = None
                     /\ id \in deleted
                          => res.error = Some(ErrTicketDeleteFailIdNotFound(id))]_vars

\* C19 witness: two requests in flight deleted the same id; one holds the
\* ticket, the other the not-found error.
C19_Witness ==
    \E w, v \in Workers :
        /\ conn[w].pc = "handled" /\ conn[w].path = DELETE
        /\ conn[v].pc = "handled" /\ conn[v].path = DELETE
        /\ conn[w].arg = conn[v].arg
        /\ Unwrap(conn[w].res).error = None
        /\ Unwrap(conn[v].res).error = Some(ErrTicketDeleteFailIdNotFound(conn[v].arg))

\* C20: under fair scheduling a request that holds the guard releases it, and a
\* request that has called create, list or delete gets its result (if it is
\* not aborted before it starts): nobody waits on the store forever.
C20_EveryCallReturns ==
    \A w \in Workers :
        /\ (lock = w) ~> (lock = 0 /\ conn[w].pc = "handled")
        /\ (conn[w].pc = "handler") ~> (conn[w].pc \in {"handled", "idle"})

\* C20 witness: two creates in flight at once have both returned, and the guard
\* is free.
C20_Witness ==
    \E w, v \in Workers :
        /\ w # v
        /\ conn[w].pc = "handled" /\ conn[w].path = CREATE
        /\ conn[v].pc = "handled" /\ conn[v].path = CREATE
        /\ lock = 0

====
